---- MODULE Spec2Model ----
(***************************************************************************)
(* Model of scanner/providers/implementations/themoviedatabase.py:         *)
(* the TheMovieDatabase provider.  The identification operations           *)
(* (identify_movie, identify_show, identify_episode) search the remote     *)
(* catalog, resolve the locale sequence, and aggregate one detail fetch    *)
(* per locale through process_translations (asyncio.gather).  The helpers  *)
(* get (query-parameter construction) and get_image are modelled as        *)
(* operators and exercised by their own specification, SpecPure.           *)
(***************************************************************************)
EXTENDS Integers, Sequences, FiniteSets, TLC

\* ------------------------------------------------------------------ bounds
\* Longest language list a caller hands in.
MaxLen == 2
\* Number of identification calls one caller makes on the shared list.
MaxCalls == 2
\* Longest params mapping / image list handed to get / get_image.
MaxImages == 2

Locales == {"en", "fr"}

\* Python's None.
None == "None"

\* The static key handed to __init__ (self.api_key).
ApiKey == "KEY"

\* The literal prefix of every image URL built by get_image.
ImageBase == "https://image.tmdb.org/t/p/original"

VARIABLES
    language,    \* the caller's list object passed as language=... (mutated in place)
    language0,   \* history: the list as the caller built it
    originals,   \* history: original locales of the entities resolved so far
    ncalls,      \* number of identification calls made so far
    call,        \* the identification call in progress / last finished
    tasks,       \* the per-locale tasks created by asyncio.gather for that call
    nfinished,   \* gather's count of finished children
    firstDone,   \* history: index of the child that finished first (0: none yet)
    params,      \* the params mapping of the last direct call of get
    query,       \* the query parameters of the GET that call issued
    images,      \* the argument of the last call of get_image
    urls         \* what that call produced

flowVars == <<language, language0, originals, ncalls, call, tasks, nfinished, firstDone>>
pureVars == <<params, query, images, urls>>
vars == <<language, language0, originals, ncalls, call, tasks, nfinished, firstDone,
          params, query, images, urls>>

\* ------------------------------------------------------------- helpers
Elems(s) == {s[i] : i \in 1..Len(s)}

IsPrefix(s, t) == Len(s) <= Len(t) /\ \A i \in 1..Len(s) : s[i] = t[i]

Min(a, b) == IF a <= b THEN a ELSE b

SeqsUpTo(S, n) == UNION {[1..k -> S] : k \in 0..n}

EmptyMap == [k \in {} |-> None]

\* ------------------------------------------------------------- get
\* params = {k: v for k, v in params.items() if v is not None}
StripNone(p) == [k \in {k \in DOMAIN p : p[k] /= None} |-> p[k]]

\* {"api_key": self.api_key, **params}: a later key of a dict display
\* replaces an earlier one.
GetQuery(p) ==
    LET f == StripNone(p)
    IN  [k \in {"api_key"} \cup DOMAIN f |-> IF k \in DOMAIN f THEN f[k] ELSE ApiKey]

\* ------------------------------------------------------------- get_image
\* Python truthiness of a file_path value.
Truthy(v) == v /= None /\ v /= ""

\* The list comprehension evaluates x["file_path"] for every x, in order;
\* a dict without that key raises KeyError.
GetImage(imgs) ==
    IF \E i \in 1..Len(imgs) : "file_path" \notin DOMAIN imgs[i]
    THEN [raised |-> "KeyError", value |-> <<>>]
    ELSE LET kept == SelectSeq(imgs, LAMBDA x : Truthy(x["file_path"]))
         IN  [raised |-> "none",
              value |-> [i \in 1..Len(kept) |-> ImageBase \o kept[i]["file_path"]]]

\* ------------------------------------------------------------- locale set
\* Faulty variant: the original locale is never added to the list.
ResolveLanguageNoAppend(lang, o) == lang

\* Faulty variant: the original locale is appended without the membership test.
ResolveLanguageAlways(lang, o) == Append(lang, o)

\* if original_language not in language: language.append(original_language)
ResolveLanguage(lang, o) == IF o \in Elems(lang) THEN lang ELSE Append(lang, o)

\* ------------------------------------------------------------- per-locale fetch
\* What for_language(lng) returns when run as the i-th child: the entity built
\* from that child's response (base stands for its non-translation fields) with
\* ret.translations = {lng: translation}.
Item(i, lng) ==
    [base |-> i, translations |-> [k \in {lng} |-> [lang |-> lng, src |-> i]]]

\* tasks = map(lambda lng: for_language(lng), languages); gather(*tasks) wraps
\* every coroutine in a task, in order, before the caller is suspended.
Launch(langs) == [i \in 1..Len(langs) |-> [lng |-> langs[i], st |-> "created", gets |-> 0]]

Pending == {"created", "requesting"}
Settled == {"done", "failed", "cancelled"}

\* gather's result list: one item per child, by index.
Items(ts) == [i \in 1..Len(ts) |-> Item(i, ts[i].lng)]

\* ------------------------------------------------------------- merge
NoResult == [kind |-> "none", base |-> 0, translations |-> EmptyMap]
NoError == [kind |-> "none", from |-> 0]

\* v.translations[k] for every pair of zip(languages, items)
MergeRaises(langs, items) ==
    \E i \in 1..Min(Len(langs), Len(items)) : langs[i] \notin DOMAIN items[i].translations

\* Faulty variant: the base is the item of the child that completed first.
MergeBaseFirstCompleted(items) == items[IF firstDone = 0 THEN 1 ELSE firstDone].base

\* item = items[0]
MergeBase(items) == items[1].base

\* item.translations = {k: v.translations[k] for k, v in zip(languages, items)}
\* (a later pair with the same key replaces an earlier one)
MergeTranslations(langs, items) ==
    LET n == Min(Len(langs), Len(items))
        last(k) == CHOOSE i \in 1..n : langs[i] = k /\ \A j \in 1..n : langs[j] = k => j <= i
    IN  [k \in {langs[i] : i \in 1..n} |-> items[last(k)].translations[k]]

Merge(langs, items) ==
    [kind |-> "entity", base |-> MergeBase(items),
     translations |-> MergeTranslations(langs, items)]

\* ------------------------------------------------------------- state
IdleCall ==
    [kind |-> "none", pc |-> "idle", L |-> <<>>, o |-> None, search |-> "none",
     searchGets |-> 0, result |-> NoResult, error |-> NoError]

Init ==
    /\ language \in SeqsUpTo(Locales, MaxLen) /\ language /= <<>>
    /\ language0 = language
    /\ originals = {}
    /\ ncalls = 0
    /\ call = IdleCall
    /\ tasks = <<>>
    /\ nfinished = 0
    /\ firstDone = 0
    /\ params = EmptyMap
    /\ query = [issued |-> FALSE, q |-> EmptyMap]
    /\ images = <<>>
    /\ urls = [raised |-> "none", value |-> <<>>]

\* The caller makes its next call once the previous one has come back and the
\* event loop holds no child of it any more.
CanCall ==
    /\ ncalls < MaxCalls
    /\ call.pc \in {"idle", "returned", "failed"}
    /\ \A i \in 1..Len(tasks) : tasks[i].st \in Settled

\* identify_movie / identify_episode up to the suspension in
\* await self.get("search/..."): the search GET is issued.
StartSearch(kind) ==
    /\ CanCall
    /\ ncalls' = ncalls + 1
    /\ call' = [IdleCall EXCEPT !.kind = kind, !.pc = "search", !.L = language,
                                !.search = "pending", !.searchGets = 1]
    /\ tasks' = <<>>
    /\ nfinished' = 0
    /\ firstDone' = 0
    /\ UNCHANGED <<language, language0, originals, pureVars>>

StartMovie == StartSearch("movie")

StartEpisode == StartSearch("episode")

\* r.raise_for_status() raises in get: the exception leaves identify_*.
SearchHttpError ==
    /\ call.pc = "search"
    /\ call' = [call EXCEPT !.pc = "failed", !.search = "http_error",
                            !.error = [kind |-> "ClientResponseError", from |-> 0]]
    /\ UNCHANGED <<language, language0, originals, ncalls, tasks, nfinished, firstDone, pureVars>>

\* ["results"][0] on an empty list.
SearchEmpty ==
    /\ call.pc = "search"
    /\ call' = [call EXCEPT !.pc = "failed", !.search = "empty",
                            !.error = [kind |-> "IndexError", from |-> 0]]
    /\ UNCHANGED <<language, language0, originals, ncalls, tasks, nfinished, firstDone, pureVars>>

\* identify_movie after the search response: resolve the locale list, then
\* return await self.process_translations(for_language, language), which runs
\* up to its suspension in await asyncio.gather(*tasks).
MovieSearchOk(o) ==
    /\ call.pc = "search" /\ call.kind = "movie"
    /\ language' = ResolveLanguage(language, o)
    /\ originals' = originals \cup {o}
    /\ tasks' = Launch(language')
    /\ call' = [call EXCEPT !.pc = "gather", !.search = "found", !.o = o]
    /\ UNCHANGED <<language0, ncalls, nfinished, firstDone, pureVars>>

\* identify_episode after the search response: resolve the locale list, then
\* return self.process_translations(for_language, language) -- the coroutine
\* object itself, which nothing has started.
EpisodeSearchOk(o) ==
    /\ call.pc = "search" /\ call.kind = "episode"
    /\ language' = ResolveLanguage(language, o)
    /\ originals' = originals \cup {o}
    /\ call' = [call EXCEPT !.pc = "returned", !.search = "found", !.o = o,
                            !.result = [NoResult EXCEPT !.kind = "coroutine"]]
    /\ UNCHANGED <<language0, ncalls, tasks, nfinished, firstDone, pureVars>>

\* identify_show: no search; show.original_language comes with the PartialShow.
IdentifyShow(o) ==
    /\ CanCall
    /\ ncalls' = ncalls + 1
    /\ language' = ResolveLanguage(language, o)
    /\ originals' = originals \cup {o}
    /\ tasks' = Launch(language')
    /\ call' = [IdleCall EXCEPT !.kind = "show", !.pc = "gather", !.L = language, !.o = o]
    /\ nfinished' = 0
    /\ firstDone' = 0
    /\ UNCHANGED <<language0, pureVars>>

\* A child runs for the first time: for_language(lng) up to the suspension in
\* await self.get("/movie/{id}", ...): its detail GET is issued.
TaskStart(i) ==
    /\ i \in 1..Len(tasks)
    /\ tasks[i].st = "created"
    /\ tasks' = [tasks EXCEPT ![i].st = "requesting", ![i].gets = @ + 1]
    /\ UNCHANGED <<language, language0, originals, ncalls, call, nfinished, firstDone, pureVars>>

\* Faulty variant: a failing child cancels the siblings that are still pending
\* (the behaviour of a task group).
AfterFailureCancelSiblings(ts, i) ==
    [j \in 1..Len(ts) |->
        IF j = i THEN [ts[j] EXCEPT !.st = "failed"]
        ELSE IF ts[j].st \in Pending THEN [ts[j] EXCEPT !.st = "cancelled"]
        ELSE ts[j]]

\* What a child's failure does to its siblings: nothing (gather without
\* return_exceptions leaves the other children running).
AfterFailure(ts, i) == [ts EXCEPT ![i].st = "failed"]

\* Faulty variant: a failed detail GET is issued once more before giving up.
OnFetchErrorRetry(ts, i) ==
    IF ts[i].gets < 2 THEN [ts EXCEPT ![i].st = "created"] ELSE [ts EXCEPT ![i].st = "failed"]

\* What the failure of a child's GET does to that child: the exception leaves
\* for_language (no retry in get or in for_language).
OnFetchError(ts, i) == AfterFailure(ts, i)

\* gather when every child has a result: the awaiting process_translations
\* resumes with the items by index, merges and returns.
GatherResult(c, ts) ==
    IF MergeRaises(language, Items(ts))
    THEN [c EXCEPT !.pc = "failed", !.error = [kind |-> "KeyError", from |-> 0]]
    ELSE [c EXCEPT !.pc = "returned", !.result = Merge(language, Items(ts))]

\* Faulty variant: the exception is collected instead of raised
\* (return_exceptions=True) and the awaiting call is not woken with it.
GatherExceptionCollected(c, ts, i, e) == c

\* gather when child i raised e: the first exception is set on the outer
\* future at once; a later one finds the outer future done already.
GatherException(c, ts, i, e) ==
    IF c.pc = "gather"
    THEN [c EXCEPT !.pc = "failed", !.error = [kind |-> e, from |-> i]]
    ELSE c

\* The response of child i arrives and for_language returns its entity.
TaskSucceed(i) ==
    /\ i \in 1..Len(tasks)
    /\ tasks[i].st = "requesting"
    /\ tasks' = [tasks EXCEPT ![i].st = "done"]
    /\ nfinished' = nfinished + 1
    /\ firstDone' = IF firstDone = 0 THEN i ELSE firstDone
    /\ call' = IF call.pc = "gather" /\ \A j \in 1..Len(tasks') : tasks'[j].st = "done"
               THEN GatherResult(call, tasks')
               ELSE call
    /\ UNCHANGED <<language, language0, originals, ncalls, pureVars>>

\* Child i raises: raise_for_status (ClientResponseError) or a lookup in the
\* response that fails (KeyError).
TaskFail(i, e) ==
    /\ i \in 1..Len(tasks)
    /\ tasks[i].st = "requesting"
    /\ tasks' = OnFetchError(tasks, i)
    /\ nfinished' = IF tasks'[i].st = "failed" THEN nfinished + 1 ELSE nfinished
    /\ firstDone' = IF firstDone = 0 /\ tasks'[i].st = "failed" THEN i ELSE firstDone
    /\ call' = IF tasks'[i].st = "failed" THEN GatherException(call, tasks', i, e) ELSE call
    /\ UNCHANGED <<language, language0, originals, ncalls, pureVars>>

FetchErrors == {"ClientResponseError", "KeyError"}

Next ==
    \/ StartMovie
    \/ StartEpisode
    \/ SearchHttpError
    \/ SearchEmpty
    \/ \E o \in Locales : MovieSearchOk(o)
    \/ \E o \in Locales : EpisodeSearchOk(o)
    \/ \E o \in Locales : IdentifyShow(o)
    \/ \E i \in 1..(MaxLen + 1) : TaskStart(i)
    \/ \E i \in 1..(MaxLen + 1) : TaskSucceed(i)
    \/ \E i \in 1..(MaxLen + 1), e \in FetchErrors : TaskFail(i, e)

Spec == Init /\ [][Next]_vars

\* The event loop runs every task it holds, and the transport answers every
\* request it sent (with a response or with an error).
Fairness ==
    /\ \A i \in 1..(MaxLen + 1) : WF_vars(TaskStart(i))
    /\ \A i \in 1..(MaxLen + 1) : WF_vars(TaskSucceed(i) \/ \E e \in FetchErrors : TaskFail(i, e))

FairSpec == Spec /\ Fairness

\* ------------------------------------------------------------- get, get_image alone
ParamKeys == {"api_key", "query", "year"}
ParamValues == {None, "x", ApiKey}
ParamMaps == UNION {[K -> ParamValues] : K \in SUBSET ParamKeys}

ImageEntries ==
    {EmptyMap, [file_path |-> None], [file_path |-> ""], [file_path |-> "/abc.jpg"],
     [file_path |-> "/b.png"]}

\* await self.get(path, params=p): the GET goes out with GetQuery(p).
Get(p) ==
    /\ params' = p
    /\ query' = [issued |-> TRUE, q |-> GetQuery(p)]
    /\ UNCHANGED <<flowVars, images, urls>>

\* self.get_image(imgs)
GetImageCall(imgs) ==
    /\ images' = imgs
    /\ urls' = GetImage(imgs)
    /\ UNCHANGED <<flowVars, params, query>>

NextPure ==
    \/ \E p \in ParamMaps : Get(p)
    \/ \E imgs \in SeqsUpTo(ImageEntries, MaxImages) : GetImageCall(imgs)

SpecPure == Init /\ [][NextPure]_vars

\* ------------------------------------------------------------- properties
Count(s, x) == Cardinality({i \in 1..Len(s) : s[i] = x})

TranslationKeys == DOMAIN call.result.translations

\* C1: the entity identify_movie returns has a translations mapping whose key
\* set is exactly set(L) \cup {o}, L the requested list and o the original
\* locale of the search result: it is not empty, and o was appended to the
\* resolved list only when L lacked it, so that it occurs there once.
C1_TranslationKeys ==
    (call.kind = "movie" /\ call.pc = "returned") =>
        /\ call.result.kind = "entity"
        /\ TranslationKeys = Elems(call.L) \cup {call.o}
        /\ TranslationKeys /= {}
        /\ IsPrefix(call.L, language)
        /\ Len(language) = Len(call.L) + (IF call.o \in Elems(call.L) THEN 0 ELSE 1)
        /\ Count(language, call.o) = (IF call.o \in Elems(call.L) THEN Count(call.L, call.o) ELSE 1)

C1_Witness ==
    /\ call.kind = "movie" /\ call.pc = "returned"
    /\ call.o \in Elems(call.L)
    /\ Cardinality(Elems(call.L)) = 2
    /\ TranslationKeys = Elems(call.L)

\* C2: merging is order-stable: whatever the order in which the per-locale
\* fetches complete, the non-translation fields of the returned entity are those
\* of the fetch of index 1, and translations[L[i]] was produced by a fetch for
\* the locale L[i].
C2_OrderStable ==
    (call.pc = "returned" /\ call.result.kind = "entity") =>
        /\ call.result.base = Item(1, language[1]).base
        /\ \A i \in 1..Len(language) :
              LET t == call.result.translations[language[i]]
              IN  /\ t.lang = language[i]
                  /\ t.src \in 1..Len(tasks)
                  /\ tasks[t.src].lng = language[i]

C2_Witness ==
    /\ call.pc = "returned" /\ call.result.kind = "entity"
    /\ Len(tasks) >= 2
    /\ firstDone = Len(tasks)
    /\ call.result.base = 1

\* C3: the aggregation is all-or-nothing: as soon as one per-locale fetch has
\* failed, whatever its index and whatever the others did before, the call has
\* failed with the failure of a failed fetch and holds no entity; an entity is
\* returned only when every fetch succeeded.
C3_AllOrNothing ==
    /\ (\E i \in 1..Len(tasks) : tasks[i].st = "failed") =>
          /\ call.pc = "failed"
          /\ call.result = NoResult
          /\ call.error.kind \in FetchErrors
          /\ call.error.from \in 1..Len(tasks)
          /\ tasks[call.error.from].st = "failed"
    /\ call.result.kind = "entity" =>
          /\ \A i \in 1..Len(tasks) : tasks[i].st = "done"
          /\ TranslationKeys = {tasks[i].lng : i \in 1..Len(tasks)}

C3_Witness ==
    /\ Len(tasks) = 3
    /\ tasks[1].st = "done" /\ tasks[3].st = "done" /\ tasks[2].st = "failed"
    /\ call.pc = "failed" /\ call.error.from = 2
    /\ call.result = NoResult

\* C4: every identification operation hands back a fully populated entity:
\* when the call has returned, one detail fetch per locale of the resolved list
\* has been launched and has completed, and the value is the merged entity.
C4_FullyPopulated ==
    call.pc = "returned" =>
        /\ call.result.kind = "entity"
        /\ Len(tasks) = Len(language)
        /\ \A i \in 1..Len(tasks) : tasks[i].st = "done" /\ tasks[i].gets = 1
        /\ TranslationKeys = Elems(language)

\* C5: when the search returns an empty result list, the operation fails with
\* NotFoundError and no per-locale detail fetch is issued.
C5_EmptySearchNotFound ==
    call.search = "empty" =>
        /\ call.pc = "failed"
        /\ call.error.kind = "NotFoundError"
        /\ Len(tasks) = 0

\* C6: no cancellation between sibling fetches: no task is ever cancelled, and
\* every launched task reaches completion or failure, also after a sibling has
\* failed and the aggregate call has failed towards its caller.
C6_NoCancellation ==
    /\ [](\A i \in 1..Len(tasks) : tasks[i].st /= "cancelled")
    /\ \A i \in 1..(MaxLen + 1) :
          (i <= Len(tasks) /\ tasks[i].st \in Pending)
              ~> (i <= Len(tasks) /\ tasks[i].st \in {"done", "failed"})

C6_Witness ==
    /\ call.pc = "failed"
    /\ call.error.from \in 1..Len(tasks)
    /\ firstDone = call.error.from
    /\ \E i \in 1..Len(tasks) : tasks[i].st = "done"
    /\ \A i \in 1..Len(tasks) : tasks[i].st \in {"done", "failed"}

\* C7: the query of the GET that get issues has api_key equal to the static
\* key, has every entry of params whose value is not None, and has no entry
\* whose value is None, whatever params holds (an api_key entry included).
C7_QueryParams ==
    query.issued =>
        /\ "api_key" \in DOMAIN query.q /\ query.q["api_key"] = ApiKey
        /\ \A k \in DOMAIN params :
              params[k] /= None => (k \in DOMAIN query.q /\ query.q[k] = params[k])
        /\ \A k \in DOMAIN query.q : query.q[k] /= None

HasPath(x) == "file_path" \in DOMAIN x /\ x["file_path"] /= None /\ x["file_path"] /= ""

\* C8: get_image returns, in input order, the base URL followed by the
\* file_path of every entry that has a non-empty one; an entry with an empty or
\* null file_path and an entry without the key are left out, and nothing is raised.
C8_ImageUrls ==
    LET kept == SelectSeq(images, HasPath)
    IN  /\ urls.raised = "none"
        /\ urls.value = [i \in 1..Len(kept) |-> ImageBase \o kept[i]["file_path"]]

DetailGets == [i \in 1..Len(tasks) |-> tasks[i].gets]

RECURSIVE Sum(_)
Sum(s) == IF s = <<>> THEN 0 ELSE Head(s) + Sum(Tail(s))

\* C9: in one identify_movie call no detail GET goes out before the search
\* response; then every element of the resolved list has its task, all of them
\* created when the resolver suspends, each issuing one detail GET and never a
\* second one; the search is not repeated, so the call issues at most
\* 1 + |resolved list| requests.
C9_RequestDiscipline ==
    call.kind = "movie" =>
        /\ call.searchGets = 1
        /\ call.pc = "search" => Len(tasks) = 0
        /\ call.search \in {"http_error", "empty"} => Len(tasks) = 0
        /\ call.search = "found" =>
              /\ Len(tasks) = Len(language)
              /\ \A i \in 1..Len(tasks) : tasks[i].lng = language[i] /\ tasks[i].gets <= 1
              /\ \A i \in 1..Len(tasks) : tasks[i].gets = 1 <=> tasks[i].st /= "created"
        /\ call.searchGets + Sum(DetailGets) <= 1 + Len(language)
        /\ call.pc = "returned" => Sum(DetailGets) = Len(language)

C9_Witness ==
    /\ call.kind = "movie" /\ call.pc = "failed" /\ call.search = "found"
    /\ Len(tasks) = 3
    /\ \A i \in 1..Len(tasks) : tasks[i].st \in {"done", "failed"}
    /\ call.searchGets + Sum(DetailGets) = 4

\* A step in which an identification operation resolves its entity.
Resolves ==
    \/ call.pc = "search" /\ call'.search = "found"
    \/ ncalls' /= ncalls /\ call'.kind = "show"

\* C10: the identification operations change the caller's language list in
\* place and only by appending: a step that resolves an entity appends its
\* original locale when the list lacks it and leaves the list alone otherwise,
\* no other step touches the list; so the list always extends its initial value
\* and holds the original locale of every entity resolved so far.
C10_AppendOnly ==
    /\ [](IsPrefix(language0, language) /\ originals \subseteq Elems(language))
    /\ [][IF Resolves
          THEN language' = (IF call'.o \in Elems(language)
                            THEN language ELSE Append(language, call'.o))
          ELSE language' = language]_vars

C10_Witness ==
    /\ ncalls = 2
    /\ call.kind = "episode" /\ call.pc = "returned"
    /\ Len(language0) = 1
    /\ originals = {language0[1], call.o}
    /\ call.o /= language0[1]
    /\ language = <<language0[1], call.o>>

====
